---- MODULE Spec2Model ----
(***************************************************************************)
(* Model of routers/sessions.py: the two handlers get_sessions_stats and   *)
(* get_sessions_general, each a pure computation over the rows returned    *)
(* by query_df and the two filter parameters error_types and moments.      *)
(*                                                                         *)
(* Representation                                                          *)
(*   - a DataFrame is a sequence of rows (records), in row order;          *)
(*   - a Site is a natural number: sites are only compared, and the        *)
(*     number order stands for the string order groupby sorts by;          *)
(*   - a missing cell (SQL NULL, pandas None/NaN) of a string column is    *)
(*     the value NoValue; a cell of the state column is a tagged value;    *)
(*   - a percentage rounded to 1 decimal is an integer number of tenths,   *)
(*     rounded to 2 decimals an integer number of hundredths.              *)
(***************************************************************************)
EXTENDS Integers, Sequences, FiniteSets, TLC

VARIABLES df, error_types, moments, stats_view, general_view

vars == <<df, error_types, moments, stats_view, general_view>>

-----------------------------------------------------------------------------
(* Bounds of the model *)

\* longest batch of freely chosen rows
MaxLen == 2

\* largest number of sites of a many-site batch
MaxSites == 11

-----------------------------------------------------------------------------
(* Values *)

NoValue == "<NULL>"

\* cells of the column `State of charge(0:good, 1:error)`
Num(n) == [tag |-> "num", n |-> n]
SqlNull == [tag |-> "null", n |-> 0]
Text == [tag |-> "text", n |-> 0]
NaN == [tag |-> "nan", n |-> 0]

\* routers.filters.MOMENT_ORDER: the fixed ordered vocabulary of moments
MOMENT_ORDER == <<"Init", "Charge", "Fin de charge">>

\* Python's order on the moment strings of the model (code point order)
Collation == <<"Autre", "Charge", "Fin de charge", "Init", "Unknown">>

StrRank(s) == CHOOSE i \in 1..Len(Collation) : Collation[i] = s

StrLess(a, b) == StrRank(a) < StrRank(b)

-----------------------------------------------------------------------------
(* Generic helpers *)

Range(s) == {s[i] : i \in 1..Len(s)}

Contains(s, v) == \E i \in 1..Len(s) : s[i] = v

RECURSIVE SumSeq(_)
SumSeq(s) == IF s = <<>> THEN 0 ELSE Head(s) + SumSeq(Tail(s))

\* a sequence without its repeated elements, first occurrences kept
RECURSIVE FirstOccurrences(_)
FirstOccurrences(s) ==
  IF s = <<>> THEN <<>>
  ELSE LET init == FirstOccurrences(SubSeq(s, 1, Len(s) - 1))
       IN IF Contains(init, s[Len(s)]) THEN init ELSE Append(init, s[Len(s)])

\* DataFrame.head(n)
HeadN(s, n) == SubSeq(s, 1, IF Len(s) < n THEN Len(s) ELSE n)

\* the elements of a finite set of naturals, ascending
RECURSIVE AscendingNat(_)
AscendingNat(S) ==
  IF S = {} THEN <<>>
  ELSE LET m == CHOOSE x \in S : \A y \in S : x <= y
       IN <<m>> \o AscendingNat(S \ {m})

\* the elements of a finite set of strings, in Python's string order
RECURSIVE AscendingStr(_)
AscendingStr(S) ==
  IF S = {} THEN <<>>
  ELSE LET m == CHOOSE x \in S : \A y \in S : x = y \/ StrLess(x, y)
       IN <<m>> \o AscendingStr(S \ {m})

\* round(num / den * scale): the nearest integer to num*scale/den, a tie going
\* to the even neighbour (num >= 0, den > 0); a tie needs den to be a multiple
\* of 16, where the float quotient is exact and Python and numpy round it so
RoundRatio(num, den, scale) ==
  LET n == num * scale
      q == n \div den
      r == n % den
  IN IF 2 * r < den THEN q
     ELSE IF 2 * r > den THEN q + 1
     ELSE IF q % 2 = 0 THEN q ELSE q + 1

-----------------------------------------------------------------------------
(* Parsing of the query parameters *)

\* str.strip() on the tokens of the model
Strip(t) ==
  CASE t = " E1 " -> "E1"
    [] t = " Charge" -> "Charge"
    [] t = " " -> ""
    [] OTHER -> t

\* [e.strip() for e in param.split(",") if e.strip()] if param else []
\* (param is given as the sequence of its comma-separated tokens)
ParseList(param) ==
  LET stripped == [i \in 1..Len(param) |-> Strip(param[i])]
      NonEmpty(t) == t # ""
  IN SelectSeq(stripped, NonEmpty)

-----------------------------------------------------------------------------
(* Classification of the rows *)

\* pd.to_numeric(df["state"], errors="coerce")
ToNumeric(cell) == IF cell.tag = "num" THEN cell ELSE NaN

\* .fillna(0)
FillNa0(cell) == IF cell.tag = "nan" THEN Num(0) ELSE cell

\* .astype(int)
AsInt(cell) == cell.n

\* df["is_ok"]
IsOk(row) == AsInt(FillNa0(ToNumeric(row.state))) = 0

\* Isin with a missing cell taken to be in every list
IsinMissingMatches(cell, values) == cell = NoValue \/ Contains(values, cell)

\* Series.isin(values): a missing cell is in no list of strings
Isin(cell, values) == cell # NoValue /\ Contains(values, cell)

\* mask_type of get_sessions_stats
MaskTypeStats(row, error_type_list) ==
  IF Len(error_type_list) > 0 THEN Isin(row.type_erreur, error_type_list) ELSE TRUE

\* mask_moment of get_sessions_stats
MaskMomentStats(row, moment_list) ==
  IF Len(moment_list) > 0 THEN Isin(row.moment, moment_list) ELSE TRUE

\* df["is_ok_filt"] of get_sessions_stats
IsOkFiltStats(row, error_type_list, moment_list) ==
  LET mask_nok == ~IsOk(row)
      mask_nok_keep == mask_nok /\ MaskTypeStats(row, error_type_list)
                                /\ MaskMomentStats(row, moment_list)
  IN IF mask_nok_keep THEN FALSE ELSE TRUE

\* mask_type of get_sessions_general
MaskTypeGeneral(row, error_type_list) ==
  IF Len(error_type_list) > 0 THEN Isin(row.type_erreur, error_type_list) ELSE TRUE

\* MaskMomentGeneral with the moments filter left out of this view
MaskMomentGeneralOff(row, moment_list) == TRUE

\* mask_moment of get_sessions_general
MaskMomentGeneral(row, moment_list) ==
  IF Len(moment_list) > 0 THEN Isin(row.moment, moment_list) ELSE TRUE

\* df["is_ok_filt"] of get_sessions_general
IsOkFiltGeneral(row, error_type_list, moment_list) ==
  LET mask_nok == ~IsOk(row)
      mask_nok_keep == mask_nok /\ MaskTypeGeneral(row, error_type_list)
                                /\ MaskMomentGeneral(row, moment_list)
  IN IF mask_nok_keep THEN FALSE ELSE TRUE

\* int(df["is_ok_filt"].sum())
CountTrue(flags) == SumSeq([i \in 1..Len(flags) |-> IF flags[i] THEN 1 ELSE 0])

\* DfLen as df["state"].count(): the rows whose state is not missing
DfLenNonNull(d) == Cardinality({i \in 1..Len(d) : d[i].state.tag # "null"})

\* len(df)
DfLen(d) == Len(d)

\* round(x / total * 100, 1) if total else 0, in tenths of a percent
Taux(x, total) == IF total # 0 THEN RoundRatio(x, total, 1000) ELSE 0

-----------------------------------------------------------------------------
(* Per-site table *)

\* the group keys of df.groupby("Site"): the distinct sites, sorted
GroupKeys(d) == AscendingNat({d[i].Site : i \in 1..Len(d)})

\* StatsSite with total aggregated by "sum" instead of "count"
StatsSiteSumAsTotal(d, flags) ==
  LET keys == GroupKeys(d)
      Ok(s) == Cardinality({i \in 1..Len(d) : d[i].Site = s /\ flags[i]})
  IN [k \in 1..Len(keys) |->
        [Site |-> keys[k],
         total |-> Ok(keys[k]),
         ok |-> Ok(keys[k]),
         nok |-> 0,
         taux_ok |-> IF Ok(keys[k]) > 0 THEN 1000 ELSE 0]]

\* df.groupby("Site").agg(total=("is_ok_filt","count"), ok=("is_ok_filt","sum"))
\* .reset_index(), then the columns nok and taux_ok
StatsSite(d, flags) ==
  LET keys == GroupKeys(d)
      Count(s) == Cardinality({i \in 1..Len(d) : d[i].Site = s})
      Ok(s) == Cardinality({i \in 1..Len(d) : d[i].Site = s /\ flags[i]})
  IN [k \in 1..Len(keys) |->
        [Site |-> keys[k],
         total |-> Count(keys[k]),
         ok |-> Ok(keys[k]),
         nok |-> Count(keys[k]) - Ok(keys[k]),
         taux_ok |-> IF Count(keys[k]) > 0
                     THEN RoundRatio(Ok(keys[k]), Count(keys[k]), 1000)
                     ELSE 0]]

\* DataFrame.sort_values(key, ascending=False) with the default kind
\* (quicksort, not stable): every ordering of the rows in which the key does
\* not increase; rows that tie on the key may come out in any order
RECURSIVE SortOrders(_, _)
SortOrders(rows, key) ==
  IF rows = {} THEN {<<>>}
  ELSE UNION {{<<r>> \o rest : rest \in SortOrders(rows \ {r}, key)} :
              r \in {x \in rows : \A y \in rows : x[key] >= y[key]}}

\* .head(10)
TopN == 10

\* TopSites without the sort: the first rows of stats_site as grouped
TopSitesUnsorted(stats_site) == {HeadN(stats_site, TopN)}

\* stats_site.sort_values("total", ascending=False).head(10)
TopSites(stats_site) == {HeadN(o, TopN) : o \in SortOrders(Range(stats_site), "total")}

\* stats_site.sort_values("nok", ascending=False).head(10)
TopEchecs(stats_site) == {HeadN(o, TopN) : o \in SortOrders(Range(stats_site), "nok")}

-----------------------------------------------------------------------------
(* get_sessions_general: recap table and moment distribution *)

\* stat_global: stats_site renamed, with Total_NOK, % OK and % NOK (2 decimals,
\* in hundredths of a percent)
StatGlobal(stats_site) ==
  [k \in 1..Len(stats_site) |->
     LET r == stats_site[k]
         Total_NOK == r.total - r.ok
     IN [Site |-> r.Site, Total |-> r.total, Total_OK |-> r.ok,
         Total_NOK |-> Total_NOK,
         pct_OK |-> IF r.total > 0 THEN RoundRatio(r.ok, r.total, 10000) ELSE 0,
         pct_NOK |-> IF r.total > 0 THEN RoundRatio(Total_NOK, r.total, 10000) ELSE 0]]

\* err = df[~df["is_ok_filt"]]
Err(d, flags) ==
  LET idx == SelectSeq([i \in 1..Len(d) |-> i], LAMBDA i : ~flags[i])
  IN [k \in 1..Len(idx) |-> d[idx[k]]]

\* the rows err.groupby(["Site", "moment"]) groups: a row whose moment is
\* missing belongs to no group (dropna=True)
Grouped(err) == SelectSeq(err, LAMBDA r : r.moment # NoValue)

\* PivotColumns with the columns left in the order the moments are first met
PivotColumnsUnsorted(err) ==
  FirstOccurrences([k \in 1..Len(Grouped(err)) |-> Grouped(err)[k].moment])

\* the moment columns of err_grouped: pivot(columns="moment") gives one column
\* per distinct moment, in sorted order
PivotColumns(err) == AscendingStr({r.moment : r \in Range(Grouped(err))})

\* err_grouped.columns after reset_index()
ErrGroupedColumns(err) == <<"Site">> \o PivotColumns(err)

\* the index of err_grouped: the sites that have a grouped row
ErrGroupedSites(err) == {r.Site : r \in Range(Grouped(err))}

\* err_grouped[site][moment]: the size of the group, 0 where the pivot has no
\* value (fillna(0).astype(int))
ErrGroupedCell(err, site, moment) ==
  Cardinality({i \in 1..Len(err) : err[i].Site = site /\ err[i].moment = moment})

\* moment_cols
MomentCols(err) ==
  LET columns == ErrGroupedColumns(err)
      known == SelectSeq(MOMENT_ORDER, LAMBDA m : Contains(columns, m))
      others == SelectSeq(columns, LAMBDA c : ~Contains(known \o <<"Site">>, c))
  IN known \o others

\* recap_columns
RecapColumns(moment_cols) ==
  <<"Site", "Total", "Total_OK", "Total_NOK">> \o moment_cols \o <<"% OK", "% NOK">>

\* one row of stat_global.merge(err_grouped, on="Site", how="left").fillna(0),
\* restricted to recap_columns, as to_dict("records") returns it
RecapRow(g, err, moment_cols) ==
  [c \in Range(RecapColumns(moment_cols)) |->
     CASE c = "Site" -> g.Site
       [] c = "Total" -> g.Total
       [] c = "Total_OK" -> g.Total_OK
       [] c = "Total_NOK" -> g.Total_NOK
       [] c = "% OK" -> g.pct_OK
       [] c = "% NOK" -> g.pct_NOK
       [] OTHER -> IF g.Site \in ErrGroupedSites(err)
                   THEN ErrGroupedCell(err, g.Site, c)
                   ELSE 0]

\* recap_rows: the merged rows sorted by Total_NOK, descending
RecapRows(stat_global, err, moment_cols) ==
  SortOrders({RecapRow(g, err, moment_cols) : g \in Range(stat_global)}, "Total_NOK")

\* counts_moment: err.groupby("moment").size().reindex(MOMENT_ORDER, fill_value=0),
\* then the rows with count > 0
CountsMoment(err) ==
  LET Size(m) == Cardinality({i \in 1..Len(err) : err[i].moment = m})
      all == [k \in 1..Len(MOMENT_ORDER) |->
                [moment |-> MOMENT_ORDER[k], count |-> Size(MOMENT_ORDER[k])]]
  IN SelectSeq(all, LAMBDA row : row.count > 0)

\* moment_distribution (percent in tenths of a percent)
MomentDistribution(err) ==
  LET counts_moment == CountsMoment(err)
      total_err == Len(err)
  IN [k \in 1..Len(counts_moment) |->
        [moment |-> counts_moment[k].moment,
         count |-> counts_moment[k].count,
         percent |-> IF total_err # 0
                     THEN RoundRatio(counts_moment[k].count, total_err, 1000)
                     ELSE 0]]

-----------------------------------------------------------------------------
(* Inputs *)

\* Site is the grouping key and is never missing (a row with a NULL Site would
\* belong to no group of groupby("Site"))
Sites == 1..2

\* (state, type_erreur, moment) of the rows of kpi_sessions
Profiles ==
  { <<Num(0), NoValue, NoValue>>,
    <<SqlNull, "E1", "Init">>,
    <<Text, NoValue, NoValue>>,
    <<Num(1), "E1", "Init">>,
    <<Num(1), "E2", "Charge">>,
    <<Num(1), "E1", "Unknown">>,
    <<Num(1), "E2", "Autre">>,
    <<Num(1), NoValue, "Charge">>,
    <<Num(2), "E1", NoValue>> }

Row(site, p) == [Site |-> site, state |-> p[1], type_erreur |-> p[2], moment |-> p[3]]

Rows == {Row(s, p) : s \in Sites, p \in Profiles}

\* every batch of at most MaxLen rows
FreeBatches == UNION {[1..n -> Rows] : n \in 0..MaxLen}

\* number of rows of site i in a many-site batch: site i has i rows, but from
\* site tie+1 on one row less, so that sites tie and tie+1 have the same number
SiteRows(i, tie) == IF tie > 0 /\ i > tie THEN i - 1 ELSE i

\* a batch of k sites whose rows are all failures
RECURSIVE ManySiteBatch(_, _)
ManySiteBatch(k, tie) ==
  IF k = 0 THEN <<>>
  ELSE ManySiteBatch(k - 1, tie)
       \o [j \in 1..SiteRows(k, tie) |-> Row(k, <<Num(1), "E1", "Charge">>)]

ManySiteBatches == {ManySiteBatch(k, tie) : k \in 1..MaxSites, tie \in 0..MaxSites}

\* the error_types parameter, as its comma-separated tokens
ErrorTypeParams == { <<>>, <<" E1 ", " ">> }

\* the moments parameter, as its comma-separated tokens
MomentParams == { <<>>, <<"Init", " Charge">> }

-----------------------------------------------------------------------------
(* The handlers *)

NoResponse == [template |-> "none"]

Init ==
  /\ \/ /\ df \in FreeBatches
        /\ error_types \in ErrorTypeParams
        /\ moments \in MomentParams
     \/ /\ df \in ManySiteBatches
        /\ error_types = <<>>
        /\ moments = <<>>
  /\ stats_view = NoResponse
  /\ general_view = NoResponse

\* GET /sessions/stats
GetSessionsStats ==
  LET error_type_list == ParseList(error_types)
      moment_list == ParseList(moments)
  IN /\ IF df = <<>>
        THEN stats_view' =
               [template |-> "partials/sessions_stats.html",
                context |-> [total |-> 0, ok |-> 0, nok |-> 0,
                             taux_reussite |-> 0, taux_echec |-> 0,
                             stats_par_site |-> <<>>],
                stats_site |-> <<>>]
        ELSE LET is_ok_filt == [i \in 1..Len(df) |->
                                  IsOkFiltStats(df[i], error_type_list, moment_list)]
                 total == DfLen(df)
                 ok == CountTrue(is_ok_filt)
                 nok == total - ok
                 stats_site == StatsSite(df, is_ok_filt)
             IN \E top_sites \in TopSites(stats_site) :
                \E top_echecs \in TopEchecs(stats_site) :
                  stats_view' =
                    [template |-> "partials/sessions_stats.html",
                     context |-> [total |-> total, ok |-> ok, nok |-> nok,
                                  taux_reussite |-> Taux(ok, total),
                                  taux_echec |-> Taux(nok, total),
                                  top_sites |-> top_sites,
                                  top_echecs |-> top_echecs],
                     stats_site |-> stats_site]
     /\ UNCHANGED <<df, error_types, moments, general_view>>

\* GET /sessions/general
GetSessionsGeneral ==
  LET error_type_list == ParseList(error_types)
      moment_list == ParseList(moments)
  IN /\ IF df = <<>>
        THEN general_view' =
               [template |-> "partials/sessions_general.html",
                context |-> [total |-> 0, ok |-> 0, nok |-> 0,
                             taux_reussite |-> 0, taux_echec |-> 0,
                             recap_columns |-> <<>>, recap_rows |-> <<>>,
                             moment_distribution |-> <<>>,
                             moment_total_errors |-> 0],
                stats_site |-> <<>>]
        ELSE LET is_ok_filt == [i \in 1..Len(df) |->
                                  IsOkFiltGeneral(df[i], error_type_list, moment_list)]
                 total == DfLen(df)
                 ok == CountTrue(is_ok_filt)
                 nok == total - ok
                 stats_site == StatsSite(df, is_ok_filt)
                 stat_global == StatGlobal(stats_site)
                 err == Err(df, is_ok_filt)
                 moment_cols == MomentCols(err)
             IN \E recap_rows \in (IF err # <<>>
                                   THEN RecapRows(stat_global, err, moment_cols)
                                   ELSE {<<>>}) :
                  general_view' =
                    [template |-> "partials/sessions_general.html",
                     context |-> [total |-> total, ok |-> ok, nok |-> nok,
                                  taux_reussite |-> Taux(ok, total),
                                  taux_echec |-> Taux(nok, total),
                                  recap_columns |-> IF err # <<>>
                                                    THEN RecapColumns(moment_cols)
                                                    ELSE <<>>,
                                  recap_rows |-> recap_rows,
                                  moment_distribution |-> IF err # <<>>
                                                          THEN MomentDistribution(err)
                                                          ELSE <<>>,
                                  moment_total_errors |-> IF err # <<>>
                                                          THEN Len(err)
                                                          ELSE 0],
                     stats_site |-> stats_site]
     /\ UNCHANGED <<df, error_types, moments, stats_view>>

Next == GetSessionsStats \/ GetSessionsGeneral

Spec == Init /\ [][Next]_vars

-----------------------------------------------------------------------------
(* Vocabulary of the properties *)

StatsDone == stats_view.template # "none"

GeneralDone == general_view.template # "none"

\* the filter as a set of strings: the non-blank tokens of the parameter
FilterSet(param) == {Strip(param[i]) : i \in 1..Len(param)} \ {""}

Matches(v, set) == set = {} \/ v \in set

\* the failures the filter keeps, stated on the raw row
CountsAsFailure(row) ==
  /\ row.state.tag = "num"
  /\ row.state.n # 0
  /\ Matches(row.type_erreur, FilterSet(error_types))
  /\ Matches(row.moment, FilterSet(moments))

KeptIdx == {i \in 1..Len(df) : CountsAsFailure(df[i])}

RawFailure(row) == row.state.tag = "num" /\ row.state.n # 0

DistinctSites == {df[i].Site : i \in 1..Len(df)}

SumOver(table, col) == SumSeq([k \in 1..Len(table) |-> table[k][col]])

Abs(x) == IF x < 0 THEN -x ELSE x

Min(a, b) == IF a < b THEN a ELSE b

\* position of the row of a site in a per-site table
PosOf(table, site) == CHOOSE k \in 1..Len(table) : table[k].Site = site

\* the moment columns of a recap_columns list
MomentColumnsOf(recap_columns) == SubSeq(recap_columns, 5, Len(recap_columns) - 2)

IsKnownMoment(m) == Contains(MOMENT_ORDER, m)

OrderPos(m) == CHOOSE k \in 1..Len(MOMENT_ORDER) : MOMENT_ORDER[k] = m

\* the moments of the kept failures, in row order, missing ones left out
KeptMoments ==
  LET idx == SelectSeq([i \in 1..Len(df) |-> i],
                       LAMBDA i : i \in KeptIdx /\ df[i].moment # NoValue)
  IN [k \in 1..Len(idx) |-> df[idx[k]].moment]

-----------------------------------------------------------------------------
(* Properties *)

\* C1: in both views a row is counted in nok if and only if its state code is
\* non-zero and its error_type and its moment each match the filter (an empty
\* filter set matches everything, a missing value matches no non-empty set);
\* every other row is counted in ok.
C1_Classification ==
  /\ StatsDone => /\ stats_view.context.nok = Cardinality(KeptIdx)
                  /\ stats_view.context.ok = Cardinality((1..Len(df)) \ KeptIdx)
  /\ GeneralDone => /\ general_view.context.nok = Cardinality(KeptIdx)
                    /\ general_view.context.ok = Cardinality((1..Len(df)) \ KeptIdx)

\* both views answered on a batch with a kept failure and a failure folded into
\* ok because its error_type is missing while error_types is not empty
C1_Witness ==
  /\ StatsDone /\ GeneralDone
  /\ FilterSet(error_types) # {}
  /\ FilterSet(moments) # {}
  /\ KeptIdx # {}
  /\ \E i \in 1..Len(df) : RawFailure(df[i]) /\ df[i].type_erreur = NoValue
  /\ stats_view.context.nok = 1
  /\ general_view.context.ok = 1

\* C2: the per-site totals sum to the global total and the per-site nok sum to
\* the global nok, in both views.
C2_SiteSums ==
  /\ StatsDone => /\ SumOver(stats_view.stats_site, "total") = stats_view.context.total
                  /\ SumOver(stats_view.stats_site, "nok") = stats_view.context.nok
  /\ GeneralDone => /\ SumOver(general_view.stats_site, "total") = general_view.context.total
                    /\ SumOver(general_view.stats_site, "nok") = general_view.context.nok

\* both views answered on a batch of two sites, each with a kept failure
C2_Witness ==
  /\ StatsDone /\ GeneralDone
  /\ Len(stats_view.stats_site) = 2
  /\ \A k \in 1..2 : general_view.stats_site[k].nok > 0
  /\ stats_view.context.nok = 2

\* C3: ok + nok = total with ok >= 0 and nok >= 0, globally and in every row of
\* the per-site table.
C3_Counts ==
  /\ StatsDone =>
       /\ stats_view.context.ok + stats_view.context.nok = stats_view.context.total
       /\ stats_view.context.ok >= 0
       /\ stats_view.context.nok >= 0
       /\ \A k \in 1..Len(stats_view.stats_site) :
            LET r == stats_view.stats_site[k]
            IN r.ok + r.nok = r.total /\ r.ok >= 0 /\ r.nok >= 0
  /\ GeneralDone =>
       /\ general_view.context.ok + general_view.context.nok = general_view.context.total
       /\ general_view.context.ok >= 0
       /\ general_view.context.nok >= 0
       /\ \A k \in 1..Len(general_view.stats_site) :
            LET r == general_view.stats_site[k]
            IN r.ok + r.nok = r.total /\ r.ok >= 0 /\ r.nok >= 0

\* the stats view answered on a batch holding a row whose state is missing and
\* a kept failure
C3_Witness ==
  /\ StatsDone /\ GeneralDone
  /\ \E i \in 1..Len(df) : df[i].state.tag = "null"
  /\ stats_view.context.nok > 0
  /\ stats_view.context.ok > 0

\* C4: when at least one failure is kept, the percent values of
\* moment_distribution sum to 100.0 within 0.1 per entry (percent is in tenths).
C4_PercentSum ==
  (GeneralDone /\ general_view.context.moment_total_errors > 0) =>
    Abs(SumOver(general_view.context.moment_distribution, "percent") - 1000)
      <= Len(general_view.context.moment_distribution)

\* C5: top_sites is ordered by total, non-increasing, has min(10, number of
\* distinct sites) rows, and no site left out has a total strictly greater than
\* the total of a site in it.
C5_TopByVolume ==
  (StatsDone /\ df # <<>>) =>
    LET top == stats_view.context.top_sites
        table == stats_view.stats_site
        inTop == {top[k].Site : k \in 1..Len(top)}
    IN /\ \A k \in 1..(Len(top) - 1) : top[k].total >= top[k + 1].total
       /\ Len(top) = Min(10, Cardinality(DistinctSites))
       /\ Cardinality(inTop) = Len(top)
       /\ Range(top) \subseteq Range(table)
       /\ \A k \in 1..Len(table) :
            table[k].Site \notin inTop =>
              \A j \in 1..Len(top) : table[k].total <= top[j].total

\* the stats view answered on a batch of more than 10 sites: a site is left out
C5_Witness ==
  /\ StatsDone
  /\ Cardinality(DistinctSites) > 10
  /\ Len(stats_view.context.top_sites) = 10
  /\ stats_view.context.top_sites[1].total > stats_view.context.top_sites[10].total

\* C6: on an empty batch both views return total = ok = nok = 0, both rates 0,
\* and every table of the view present and empty.
C6_EmptyBatch ==
  df = <<>> =>
    /\ StatsDone =>
         LET c == stats_view.context
         IN /\ c.total = 0 /\ c.ok = 0 /\ c.nok = 0
            /\ c.taux_reussite = 0 /\ c.taux_echec = 0
            /\ "top_sites" \in DOMAIN c /\ c.top_sites = <<>>
            /\ "top_echecs" \in DOMAIN c /\ c.top_echecs = <<>>
    /\ GeneralDone =>
         LET c == general_view.context
         IN /\ c.total = 0 /\ c.ok = 0 /\ c.nok = 0
            /\ c.taux_reussite = 0 /\ c.taux_echec = 0
            /\ c.recap_columns = <<>> /\ c.recap_rows = <<>>
            /\ c.moment_distribution = <<>>

C8_StableTies ==
  (StatsDone /\ df # <<>>) =>
    LET table == stats_view.stats_site
        Stable(top, key) ==
          /\ \A i, j \in 1..Len(top) :
               (i < j /\ top[i][key] = top[j][key])
                 => PosOf(table, top[i].Site) < PosOf(table, top[j].Site)
          /\ \A k \in 1..Len(table) : \A j \in 1..Len(top) :
               ((\A i \in 1..Len(top) : top[i].Site # table[k].Site)
                  /\ table[k][key] = top[j][key])
                 => PosOf(table, top[j].Site) < k
    IN /\ Stable(stats_view.context.top_sites, "total")
       /\ Stable(stats_view.context.top_echecs, "nok")

\* C9: in every row of recap_rows the moment columns sum to Total_NOK.
C9_RowSum ==
  GeneralDone =>
    LET cols == MomentColumnsOf(general_view.context.recap_columns)
        rows == general_view.context.recap_rows
    IN \A k \in 1..Len(rows) :
         SumSeq([c \in 1..Len(cols) |-> rows[k][cols[c]]]) = rows[k]["Total_NOK"]

\* C10: on the same batch and filter the two views compute the same total, ok,
\* nok, taux_reussite and taux_echec and the same per-site table.
C10_SameAggregates ==
  (StatsDone /\ GeneralDone) =>
    /\ stats_view.context.total = general_view.context.total
    /\ stats_view.context.ok = general_view.context.ok
    /\ stats_view.context.nok = general_view.context.nok
    /\ stats_view.context.taux_reussite = general_view.context.taux_reussite
    /\ stats_view.context.taux_echec = general_view.context.taux_echec
    /\ stats_view.stats_site = general_view.stats_site

\* both views answered on a batch where the moments filter folds one failure
\* into ok and keeps another
C10_Witness ==
  /\ StatsDone /\ GeneralDone
  /\ FilterSet(moments) # {}
  /\ \E i \in 1..Len(df) : RawFailure(df[i]) /\ i \notin KeptIdx
  /\ stats_view.context.nok = 1
  /\ general_view.context.nok = 1
  /\ general_view.context.taux_echec = 500

====
